---------------------------- MODULE Spec2Model ----------------------------
(***************************************************************************)
(* A model of code/run_eval_prm_trl.py: the evaluation of a token-         *)
(* classification process reward model on ProcessBench.                    *)
(*                                                                         *)
(*   collate_fn       encoder (one token sequence per example, one score   *)
(*                    position per step) and right-padding batch packer    *)
(*   find_first_zero  the step judge                                       *)
(*   gather_objects   the merge of the workers' result lists               *)
(*   main             per configuration: shard, score, barrier, gather,    *)
(*                    write the two result files, report acc / f1          *)
(*                                                                         *)
(* Three specifications share the definitions:                             *)
(*   Spec         the data-parallel run of main on num_processes workers   *)
(*   SpecBatch    collate_fn, the model call and the judge on one batch    *)
(*                and on a second batch that shares examples with it       *)
(*   SpecMetrics  the metrics part of main on arbitrary gathered results   *)
(*                                                                         *)
(* Texts are sequences of one-character strings.  Token ids, positions and *)
(* labels are integers.  Floating-point values are exact rationals with    *)
(* an explicit not-a-number and infinity (rounding is not modelled).       *)
(***************************************************************************)
EXTENDS Integers, Sequences, FiniteSets, TLC

(***************************************************************************)
(* Bounds of the model.                                                    *)
(***************************************************************************)
\* largest number of worker processes (accelerator.num_processes)
MaxW == 3
\* largest number of examples in one dataset configuration (Spec)
MaxN == 4
\* examples per DataLoader batch in Spec (24 in the code, scaled down
\* so that a shard spans more than one batch)
bs == 2
\* largest number of examples in the batch of SpecBatch
MaxBatch == 2
\* largest number of gathered results per configuration in SpecMetrics
MaxGathered == 3

VARIABLES
    model,             \* the loaded checkpoint (parameter of the opaque model)
    \* ---- SpecBatch: one batch through collate_fn and the scorer
    batches,           \* <<batch, second batch sharing examples with it>>
    stage,             \* per batch: "input", "packed", "scored", "raised"
    packed,            \* per batch: what collate_fn returned
    scored,            \* per batch: per example pred / prediction / match
    \* ---- Spec: the run of main
    num_processes,     \* accelerator.num_processes
    distributed_type,  \* accelerator.distributed_type
    dataset,           \* per configuration: what load_dataset returns
    pc,                \* per worker: its place in main
    cfg,               \* per worker: index of the configuration it is in
    shard,             \* per worker: the dataset indices its dataloader yields
    res_data,          \* per worker: res_data
    barrier,           \* per configuration: workers that reached wait_for_everyone
    all_data,          \* per configuration: the objects given to all_gather_object
    gathered_data,     \* per worker: what gather_objects returned
    files,             \* per configuration: the two result files
    console,           \* what the main process printed
    all_f1_scores      \* all_f1_scores

vars == <<model, batches, stage, packed, scored, num_processes,
          distributed_type, dataset, pc, cfg, shard, res_data, barrier,
          all_data, gathered_data, files, console, all_f1_scores>>

batchVars == <<batches, stage, packed, scored>>

runVars == <<num_processes, distributed_type, dataset, pc, cfg, shard,
             res_data, barrier, all_data, gathered_data, files, console,
             all_f1_scores>>

(***************************************************************************)
(* Small helpers.                                                          *)
(***************************************************************************)
RECURSIVE SeqSum(_)
SeqSum(s) == IF s = <<>> THEN 0 ELSE Head(s) + SeqSum(Tail(s))

SetMax(S) == CHOOSE x \in S : \A y \in S : y <= x

RECURSIVE Flatten(_)
Flatten(ss) == IF ss = <<>> THEN <<>> ELSE Head(ss) \o Flatten(Tail(ss))

SeqsUpTo(S, n) == UNION {[1..k -> S] : k \in 0..n}

(***************************************************************************)
(* The tokenizer: an opaque function from text to token ids.  Modelled as  *)
(* a greedy byte-pair tokenizer with one merge ("a","a" is one token), so  *)
(* the number of tokens is not the number of characters.  A non-empty text *)
(* yields at least one token and never the pad token.                      *)
(***************************************************************************)
NL == "\n"

pad_token_id == 0

CharToken(ch) == CASE ch = NL  -> 1
                   [] ch = "a" -> 2
                   [] ch = "b" -> 3
                   [] OTHER    -> 5

MergedToken == 4

RECURSIVE tokenizer(_)
tokenizer(text) ==
    IF text = <<>> THEN <<>>
    ELSE IF Len(text) >= 2 /\ text[1] = "a" /\ text[2] = "a"
         THEN <<MergedToken>> \o tokenizer(SubSeq(text, 3, Len(text)))
         ELSE <<CharToken(text[1])>> \o tokenizer(Tail(text))

(***************************************************************************)
(* collate_fn, lines 20-30: the encoder.                                   *)
(***************************************************************************)
\* A mutant: the position after the last token of the step.
ScorePositionPastEnd(input_idx) == Len(input_idx)

\* line 28: input_idx.size(-1) - 1
ScorePosition(input_idx) == Len(input_idx) - 1

\* A mutant: the position is recorded before the step's tokens are appended.
RECURSIVE EncodeStepsRecordFirst(_, _, _)
EncodeStepsRecordFirst(input_idx, score, steps) ==
    IF steps = <<>> THEN [input_idx |-> input_idx, score_ids |-> score]
    ELSE LET completion     == Append(Head(steps), NL)
             completion_idx == tokenizer(completion)
             cat            == input_idx \o completion_idx
         IN  EncodeStepsRecordFirst(cat, Append(score, ScorePosition(input_idx)),
                                    Tail(steps))

RECURSIVE EncodeSteps(_, _, _)
EncodeSteps(input_idx, score, steps) ==
    IF steps = <<>> THEN [input_idx |-> input_idx, score_ids |-> score]
    ELSE LET completion     == Append(Head(steps), NL)
             completion_idx == tokenizer(completion)
             cat            == input_idx \o completion_idx
         IN  EncodeSteps(cat, Append(score, ScorePosition(cat)), Tail(steps))

Encode(i, separator) ==
    EncodeSteps(tokenizer(Append(i.problem, separator)), <<>>, i.steps)

(***************************************************************************)
(* collate_fn, lines 32-48: the batch packer.                              *)
(***************************************************************************)
Padding(n) == [k \in 1..n |-> pad_token_id]

\* A mutant: the padding is put before the real tokens.
LeftPad(input_idx, max_len) ==
    Padding(max_len - Len(input_idx)) \o input_idx

\* lines 36-41: torch.cat([input_idx.squeeze(), LongTensor([pad] * (max_len - size))])
RightPad(input_idx, max_len) ==
    input_idx \o Padding(max_len - Len(input_idx))

\* input_idx has shape [1, L]; squeeze() drops every dimension of size 1, so
\* a one-token sequence becomes a zero-dimensional tensor, which torch.cat
\* refuses (RuntimeError).
SqueezeIsScalar(input_idx) == Len(input_idx) = 1

collate_fn(batch, separator) ==
    LET enc     == [i \in 1..Len(batch) |-> Encode(batch[i], separator)]
        max_len == SetMax({Len(enc[i].input_idx) : i \in 1..Len(batch)})
    IN  IF \E i \in 1..Len(batch) : SqueezeIsScalar(enc[i].input_idx)
        THEN [raised |-> TRUE, input_ids |-> <<>>, labels |-> <<>>,
              score_ids |-> <<>>]
        ELSE [raised    |-> FALSE,
              input_ids |-> [i \in 1..Len(batch) |->
                                RightPad(enc[i].input_idx, max_len)],
              labels    |-> [i \in 1..Len(batch) |-> batch[i].label],
              score_ids |-> [i \in 1..Len(batch) |-> enc[i].score_ids]]

(***************************************************************************)
(* The model, line 128: an opaque function from a [batch, max_len] grid of *)
(* token ids to [batch, max_len, 2] logits.  The checkpoint is a causal    *)
(* decoder called without an attention mask: the logits at a position are  *)
(* a function of the tokens of the row up to and including that position.  *)
(* The function is a hash of that prefix, parameterised by the checkpoint. *)
(***************************************************************************)
Checkpoints == {0, 1, 2}

Classes == {0, 1}

PrefixHash(prefix) == SeqSum([j \in 1..Len(prefix) |-> j * prefix[j]])

TokenLogits(theta, prefix) ==
    LET h == PrefixHash(prefix)
    IN  << (h + 2 * theta) % 3, ((h \div 5) + 2 * theta) % 3 >>

ModelForward(theta, input_ids) ==
    [i \in 1..Len(input_ids) |->
        [p \in 1..Len(input_ids[i]) |->
            TokenLogits(theta, SubSeq(input_ids[i], 1, p))]]

\* torch.argmax(..., dim=-1) of one logit vector: the lowest class among ties
Argmax(v) ==
    CHOOSE c \in Classes :
        /\ \A d \in Classes : v[d + 1] <= v[c + 1]
        /\ \A d \in Classes : v[d + 1] = v[c + 1] => c <= d

(***************************************************************************)
(* find_first_zero, lines 50-52.                                           *)
(***************************************************************************)
\* (mask).nonzero(): the 0-based indices of the true entries, ascending
RECURSIVE NonzeroFrom(_, _)
NonzeroFrom(mask, k) ==
    IF k > Len(mask) THEN <<>>
    ELSE (IF mask[k] THEN <<k - 1>> ELSE <<>>) \o NonzeroFrom(mask, k + 1)

\* A mutant: the last zero instead of the first.
find_last_zero(tensor) ==
    LET zeros == NonzeroFrom([k \in 1..Len(tensor) |-> tensor[k] = 0], 1)
    IN  IF Len(zeros) > 0 THEN zeros[Len(zeros)] ELSE -1

find_first_zero(tensor) ==
    LET zeros == NonzeroFrom([k \in 1..Len(tensor) |-> tensor[k] = 0], 1)
    IN  IF Len(zeros) > 0 THEN zeros[1] ELSE -1

(***************************************************************************)
(* main, lines 122-136: one batch through collate_fn, the model and the    *)
(* judge.  Indexing logits[i, score_id] with a position outside the row    *)
(* raises IndexError (a negative position counts from the end).            *)
(***************************************************************************)
IndexInRange(p, n) == -n <= p /\ p < n

LogitAt(row, p) == IF p < 0 THEN row[Len(row) + p + 1] ELSE row[p + 1]

ScoreRaises(coll) ==
    \/ coll.raised
    \/ \E i \in 1..Len(coll.score_ids) : \E k \in 1..Len(coll.score_ids[i]) :
          ~IndexInRange(coll.score_ids[i][k], Len(coll.input_ids[i]))

ScoreCollated(theta, coll) ==
    LET logits == ModelForward(theta, coll.input_ids)
    IN  [i \in 1..Len(coll.score_ids) |->
            LET score_id == coll.score_ids[i]
                label    == coll.labels[i]
                pred     == [k \in 1..Len(score_id) |->
                               Argmax(LogitAt(logits[i], score_id[k]))]
                prediction_step == find_first_zero(pred)
            IN  [pred       |-> pred,
                 prediction |-> prediction_step,
                 match      |-> prediction_step = label]]

(***************************************************************************)
(* SpecBatch: a batch, and a second batch made of the same examples        *)
(* without the first one (other co-batched examples, another max_len,      *)
(* another row index), each through collate_fn and then the scorer.        *)
(***************************************************************************)
Problems == { <<>>, <<"a">> }

StepLists == { <<>>,
               << <<"a">> >>,
               << <<"a", "a", "b">>, <<>> >>,
               << <<"b">>, <<"a", "a">>, <<>>, <<"a">> >> }

BatchLabels == {-1, 2}

BatchExamples ==
    { [id |-> 0, problem |-> p, steps |-> s, label |-> l] :
        p \in Problems, s \in StepLists, l \in BatchLabels }

NotCollated ==
    [raised |-> FALSE, input_ids |-> <<>>, labels |-> <<>>, score_ids |-> <<>>]

SecondBatch(b) == IF Len(b) >= 2 THEN Tail(b) ELSE b

NoRun ==
    /\ num_processes = 1
    /\ distributed_type = "NO"
    /\ dataset = <<>>
    /\ pc = <<>>
    /\ cfg = <<>>
    /\ shard = <<>>
    /\ res_data = <<>>
    /\ barrier = <<>>
    /\ all_data = <<>>
    /\ gathered_data = <<>>
    /\ files = <<>>
    /\ console = <<>>
    /\ all_f1_scores = <<>>

InitBatch ==
    /\ model \in Checkpoints
    /\ \E b \in SeqsUpTo(BatchExamples, MaxBatch) :
          /\ b # <<>>
          /\ batches = <<b, SecondBatch(b)>>
    /\ stage = <<"input", "input">>
    /\ packed = <<NotCollated, NotCollated>>
    /\ scored = << <<>>, <<>> >>
    /\ NoRun

Collate(b) ==
    /\ stage[b] = "input"
    /\ LET coll == collate_fn(batches[b], NL)
       IN  /\ packed' = [packed EXCEPT ![b] = coll]
           /\ stage' = [stage EXCEPT
                           ![b] = IF coll.raised THEN "raised" ELSE "packed"]
    /\ UNCHANGED <<model, batches, scored>>
    /\ UNCHANGED runVars

Score(b) ==
    /\ stage[b] = "packed"
    /\ IF ScoreRaises(packed[b])
       THEN /\ stage' = [stage EXCEPT ![b] = "raised"]
            /\ UNCHANGED scored
       ELSE /\ stage' = [stage EXCEPT ![b] = "scored"]
            /\ scored' = [scored EXCEPT
                             ![b] = ScoreCollated(model, packed[b])]
    /\ UNCHANGED <<model, batches, packed>>
    /\ UNCHANGED runVars

NextBatch == \E b \in 1..2 : Collate(b) \/ Score(b)

SpecBatch == InitBatch /\ [][NextBatch]_vars

(***************************************************************************)
(* Floating-point values of the metrics (numpy float64): a non-negative    *)
(* rational, not-a-number or infinity.  0/0 is not-a-number and x/0 is     *)
(* infinity (numpy warns and goes on); not-a-number propagates.            *)
(***************************************************************************)
RECURSIVE GCD(_, _)
GCD(a, b) == IF b = 0 THEN a ELSE GCD(b, a % b)

Num(n, d) == LET g == GCD(n, d) IN [kind |-> "num", n |-> n \div g, d |-> d \div g]

NaN == [kind |-> "nan", n |-> 0, d |-> 1]

Inf == [kind |-> "inf", n |-> 1, d |-> 1]

IsNaN(x) == x.kind = "nan"

IsZero(x) == x.kind = "num" /\ x.n = 0

FMul(a, b) ==
    IF IsNaN(a) \/ IsNaN(b) THEN NaN
    ELSE IF a.kind = "inf" \/ b.kind = "inf"
         THEN (IF IsZero(a) \/ IsZero(b) THEN NaN ELSE Inf)
         ELSE Num(a.n * b.n, a.d * b.d)

FAdd(a, b) ==
    IF IsNaN(a) \/ IsNaN(b) THEN NaN
    ELSE IF a.kind = "inf" \/ b.kind = "inf" THEN Inf
         ELSE Num(a.n * b.d + b.n * a.d, a.d * b.d)

FDiv(a, b) ==
    IF IsNaN(a) \/ IsNaN(b) THEN NaN
    ELSE IF a.kind = "inf" THEN (IF b.kind = "inf" THEN NaN ELSE Inf)
    ELSE IF b.kind = "inf" THEN Num(0, 1)
    ELSE IF b.n = 0 THEN (IF a.n = 0 THEN NaN ELSE Inf)
    ELSE Num(a.n * b.d, a.d * b.n)

RECURSIVE FSum(_)
FSum(xs) == IF xs = <<>> THEN Num(0, 1) ELSE FAdd(Head(xs), FSum(Tail(xs)))

\* np.mean of a list of floats: not-a-number for the empty list
np_mean(xs) == IF xs = <<>> THEN NaN ELSE FDiv(FSum(xs), Num(Len(xs), 1))

\* np.mean([e['match'] for e in data]): True counts 1, False 0
MatchMean(data) ==
    np_mean([k \in 1..Len(data) |-> IF data[k].match THEN Num(1, 1) ELSE Num(0, 1)])

\* A mutant: a zero denominator is masked as 0.
F1ZeroOnZeroDenominator(acc1, acc2) ==
    IF IsZero(FAdd(acc1, acc2)) THEN Num(0, 1)
    ELSE FDiv(FMul(FMul(Num(2, 1), acc1), acc2), FAdd(acc1, acc2))

\* line 161: f1 = 2 * acc1 * acc2 / (acc1 + acc2)
F1(acc1, acc2) == FDiv(FMul(FMul(Num(2, 1), acc1), acc2), FAdd(acc1, acc2))

\* lines 159-160
Accuracy(data) == FMul(MatchMean(data), Num(100, 1))

(***************************************************************************)
(* main: the configurations (two of the four, with expected error /        *)
(* correct counts scaled to the datasets of the model).                    *)
(***************************************************************************)
Configs == <<"gsm8k", "math">>

num(c) == IF c = 1 THEN <<1, 1>> ELSE <<2, 1>>

NumConfigs == Len(Configs)

\* the checkpoint main loads (lines 94-97)
from_pretrained == 2

Workers == 0..(num_processes - 1)

\* A mutant: every process takes itself for the main one.
every_process_is_main(w) == TRUE

\* accelerator.is_main_process
is_main_process(w) == w = 0

IsError(e) == e.label # -1

IsCorrect(e) == e.label = -1

(***************************************************************************)
(* Datasets of Spec: the first n of examples that alternate between two,   *)
(* numbered by their place.  With the loaded checkpoint the first is a     *)
(* fully correct solution judged correct, the second a solution whose      *)
(* first error is step 1 and is judged wrong at step 0.                    *)
(***************************************************************************)
CorrectExample == [problem |-> <<>>, steps |-> << <<"a">> >>, label |-> -1]

ErrorExample ==
    [problem |-> <<"a">>, steps |-> << <<"a", "a", "b">>, <<>> >>, label |-> 1]

DatasetOfSize(n) ==
    [i \in 1..n |->
        LET e == IF i % 2 = 1 THEN CorrectExample ELSE ErrorExample
        IN  [id |-> i - 1, problem |-> e.problem, steps |-> e.steps,
             label |-> e.label]]

Datasets == { DatasetOfSize(n) : n \in 0..MaxN }

(***************************************************************************)
(* main, lines 101-116: the sampler and the dataloader.                    *)
(* DistributedSampler(shuffle=False), drop_last left False: the index list *)
(* 0..N-1 is extended by wrap-around to the next multiple of the number of *)
(* replicas, and rank r takes the entries r, r+W, r+2W, ...                *)
(* Without a sampler the dataloader yields 0..N-1 in order.                *)
(***************************************************************************)
CeilDiv(a, b) == (a + b - 1) \div b

DistributedSampler(n, num_replicas, rank) ==
    LET num_samples == CeilDiv(n, num_replicas)
        total_size  == num_samples * num_replicas
        padded      == [k \in 1..total_size |-> (k - 1) % n]
    IN  [j \in 1..num_samples |-> padded[rank + 1 + (j - 1) * num_replicas]]

SequentialSampler(n) == [k \in 1..n |-> k - 1]

SamplerIndices(n, w) ==
    IF distributed_type = "MULTI_GPU"
    THEN DistributedSampler(n, num_processes, w)
    ELSE SequentialSampler(n)

(***************************************************************************)
(* gather_objects, lines 54-67, after all_gather_object has filled         *)
(* all_data: the main process concatenates the lists in rank order, the    *)
(* others get None.                                                        *)
(***************************************************************************)
None == [kind |-> "none", data |-> <<>>]

Unset == [kind |-> "unset", data |-> <<>>]

List(data) == [kind |-> "list", data |-> data]

\* A mutant: the main process returns its own list only.
gather_own_only(all, w) ==
    IF is_main_process(w) THEN List(all[0].data) ELSE None

gather_objects(all, w) ==
    IF is_main_process(w)
    THEN List(Flatten([k \in 1..num_processes |-> all[k - 1].data]))
    ELSE None

\* A mutant: the barrier lets a worker through at once.
BarrierNoWait(c) == TRUE

\* accelerator.wait_for_everyone(), line 140: returns when every process
\* has called it
BarrierReleased(c) == barrier[c] = Workers

AllGathered(c) == \A v \in Workers : all_data[c][v].present

NextPlace(c) == IF c = NumConfigs THEN "final" ELSE "score"

(***************************************************************************)
(* Spec: the run of main on num_processes workers.                         *)
(***************************************************************************)
DistributedTypes(n) == IF n = 1 THEN {"NO"} ELSE {"MULTI_GPU", "MULTI_CPU"}

NoBatch ==
    /\ batches = << <<>>, <<>> >>
    /\ stage = <<"unused", "unused">>
    /\ packed = <<NotCollated, NotCollated>>
    /\ scored = << <<>>, <<>> >>

InitRun(n) ==
    /\ num_processes = n
    /\ dataset = [c \in 1..NumConfigs |-> [loaded |-> FALSE, rows |-> <<>>]]
    /\ pc = [w \in 0..(n - 1) |-> "score"]
    /\ cfg = [w \in 0..(n - 1) |-> 1]
    /\ shard = [w \in 0..(n - 1) |-> <<>>]
    /\ res_data = [w \in 0..(n - 1) |-> <<>>]
    /\ barrier = [c \in 1..NumConfigs |-> {}]
    /\ all_data = [c \in 1..NumConfigs |->
                      [w \in 0..(n - 1) |-> [present |-> FALSE, data |-> <<>>]]]
    /\ gathered_data = [w \in 0..(n - 1) |-> Unset]
    /\ files = [c \in 1..NumConfigs |->
                   [written |-> FALSE, by |-> 0, error |-> <<>>, correct |-> <<>>]]
    /\ console = <<>>
    /\ all_f1_scores = <<>>

Init ==
    /\ model = from_pretrained
    /\ \E n \in 1..MaxW :
          /\ InitRun(n)
          /\ distributed_type \in DistributedTypes(n)
    /\ NoBatch

\* lines 119-138: the loop over the dataloader's batches of bs
\* indices.  An exception of collate_fn or of the indexing ends it.
RECURSIVE ScoreLoop(_, _, _)
ScoreLoop(theta, rows, indices) ==
    IF indices = <<>> THEN [raised |-> FALSE, res_data |-> <<>>]
    ELSE LET size      == IF bs < Len(indices) THEN bs ELSE Len(indices)
             batch_    == [k \in 1..size |-> rows[indices[k] + 1]]
             batch     == collate_fn(batch_, NL)
             judged    == ScoreCollated(theta, batch)
             new_batch == [k \in 1..size |->
                              [id         |-> batch_[k].id,
                               problem    |-> batch_[k].problem,
                               steps      |-> batch_[k].steps,
                               label      |-> batch_[k].label,
                               prediction |-> judged[k].prediction,
                               match      |-> judged[k].match]]
             rest      == ScoreLoop(theta, rows, SubSeq(indices, size + 1, Len(indices)))
         IN  IF ScoreRaises(batch) \/ rest.raised
             THEN [raised |-> TRUE, res_data |-> <<>>]
             ELSE [raised |-> FALSE, res_data |-> new_batch \o rest.res_data]

\* lines 99-140: load the configuration's dataset (every worker gets the
\* same rows), build the sampler and the dataloader, score the shard batch
\* by batch into res_data, call wait_for_everyone
ScoreShard(w) ==
    /\ pc[w] = "score"
    /\ LET c == cfg[w]
       IN  \E rows \in Datasets :
              /\ dataset[c].loaded => rows = dataset[c].rows
              /\ dataset' = [dataset EXCEPT ![c] = [loaded |-> TRUE, rows |-> rows]]
              /\ LET indices == SamplerIndices(Len(rows), w)
                     scoring == ScoreLoop(model, rows, indices)
                 IN  /\ shard' = [shard EXCEPT ![w] = indices]
                     /\ IF scoring.raised
                        THEN /\ pc' = [pc EXCEPT ![w] = "crashed"]
                             /\ res_data' = [res_data EXCEPT ![w] = <<>>]
                             /\ UNCHANGED barrier
                        ELSE /\ pc' = [pc EXCEPT ![w] = "barrier"]
                             /\ res_data' = [res_data EXCEPT ![w] = scoring.res_data]
                             /\ barrier' = [barrier EXCEPT ![c] = @ \cup {w}]
    /\ UNCHANGED <<model, cfg, all_data, gathered_data, files, console,
                   all_f1_scores, num_processes, distributed_type>>
    /\ UNCHANGED batchVars

\* lines 99-139: the tokenizer or the model raises, or the process hangs or
\* is killed, before the worker reaches wait_for_everyone
Fail(w) ==
    /\ pc[w] = "score"
    /\ pc' = [pc EXCEPT ![w] = "crashed"]
    /\ UNCHANGED <<model, cfg, shard, res_data, dataset, barrier, all_data,
                   gathered_data, files, console, all_f1_scores, num_processes,
                   distributed_type>>
    /\ UNCHANGED batchVars

\* lines 140-141 and 55-60: wait_for_everyone returns, gather_objects is
\* called: with one process it returns data, otherwise the worker gives its
\* res_data to all_gather_object
StartGather(w) ==
    /\ pc[w] = "barrier"
    /\ BarrierReleased(cfg[w])
    /\ IF num_processes = 1
       THEN /\ gathered_data' = [gathered_data EXCEPT ![w] = List(res_data[w])]
            /\ pc' = [pc EXCEPT ![w] = "aggregate"]
            /\ UNCHANGED all_data
       ELSE /\ all_data' = [all_data EXCEPT ![cfg[w]][w] =
                               [present |-> TRUE, data |-> res_data[w]]]
            /\ pc' = [pc EXCEPT ![w] = "gathering"]
            /\ UNCHANGED gathered_data
    /\ UNCHANGED <<model, cfg, shard, res_data, dataset, barrier, files,
                   console, all_f1_scores, num_processes, distributed_type>>
    /\ UNCHANGED batchVars

\* lines 60-67 and 141-143: all_gather_object returns once every process
\* has given its object; the main process goes on to the metrics, the
\* others to the next configuration
FinishGather(w) ==
    /\ pc[w] = "gathering"
    /\ AllGathered(cfg[w])
    /\ gathered_data' = [gathered_data EXCEPT
                            ![w] = gather_objects(all_data[cfg[w]], w)]
    /\ IF is_main_process(w)
       THEN /\ pc' = [pc EXCEPT ![w] = "aggregate"]
            /\ UNCHANGED cfg
       ELSE /\ pc' = [pc EXCEPT ![w] = NextPlace(cfg[w])]
            /\ cfg' = [cfg EXCEPT ![w] = @ + 1]
    /\ UNCHANGED <<model, shard, res_data, dataset, barrier, all_data,
                   files, console, all_f1_scores, num_processes,
                   distributed_type>>
    /\ UNCHANGED batchVars


(***************************************************************************)
(* main, lines 143-164: the metrics of one configuration.                  *)
(***************************************************************************)
Message(kind, c, len, expected, acc1, acc2, f1) ==
    [kind |-> kind, config |-> c, len |-> len, expected |-> expected,
     acc1 |-> acc1, acc2 |-> acc2, f1 |-> f1]

\* lines 147-150: the dataset length check prints and goes on
LengthCheck(c, data1, data2) ==
    (IF Len(data1) # num(c)[1]
     THEN <<Message("error num mismatch", c, Len(data1), num(c)[1], NaN, NaN, NaN)>>
     ELSE <<>>)
    \o
    (IF Len(data2) # num(c)[2]
     THEN <<Message("correct num mismatch", c, Len(data2), num(c)[2], NaN, NaN, NaN)>>
     ELSE <<>>)

RECURSIVE MatchCount(_)
MatchCount(data) ==
    IF data = <<>> THEN 0
    ELSE (IF Head(data).match THEN 1 ELSE 0) + MatchCount(Tail(data))

\* A mutant: the accuracies are taken over the expected counts.
MetricsOverExpected(c, gathered) ==
    LET data1 == SelectSeq(gathered, IsError)
        data2 == SelectSeq(gathered, IsCorrect)
        acc1  == FMul(FDiv(Num(MatchCount(data1), 1), Num(num(c)[1], 1)), Num(100, 1))
        acc2  == FMul(FDiv(Num(MatchCount(data2), 1), Num(num(c)[2], 1)), Num(100, 1))
    IN  [data1 |-> data1, data2 |-> data2,
         printed |-> LengthCheck(c, data1, data2),
         acc1 |-> acc1, acc2 |-> acc2, f1 |-> F1(acc1, acc2)]

Metrics(c, gathered) ==
    LET data1 == SelectSeq(gathered, IsError)
        data2 == SelectSeq(gathered, IsCorrect)
        acc1  == Accuracy(data1)
        acc2  == Accuracy(data2)
    IN  [data1 |-> data1, data2 |-> data2,
         printed |-> LengthCheck(c, data1, data2),
         acc1 |-> acc1, acc2 |-> acc2, f1 |-> F1(acc1, acc2)]

\* lines 143-164, on the main process: split, check the lengths, write the
\* two files, compute and print the accuracies and f1, keep f1
Aggregate(w) ==
    /\ pc[w] = "aggregate"
    /\ LET c == cfg[w]
           m == Metrics(c, gathered_data[w].data)
       IN  /\ files' = [files EXCEPT ![c] = [written |-> TRUE, by |-> w,
                                              error |-> m.data1,
                                              correct |-> m.data2]]
           /\ console' = console \o m.printed \o
                  <<Message("report", c, 0, 0, m.acc1, m.acc2, m.f1)>>
           /\ all_f1_scores' = Append(all_f1_scores, m.f1)
           /\ pc' = [pc EXCEPT ![w] = NextPlace(c)]
           /\ cfg' = [cfg EXCEPT ![w] = c + 1]
    /\ UNCHANGED <<model, shard, res_data, dataset, barrier, all_data,
                   gathered_data, num_processes, distributed_type>>
    /\ UNCHANGED batchVars

\* lines 166-171: the main process prints the mean of all_f1_scores
FinalReport(w) ==
    /\ pc[w] = "final"
    /\ pc' = [pc EXCEPT ![w] = "done"]
    /\ IF is_main_process(w)
       THEN console' = Append(console,
                Message("average", 0, 0, 0, NaN, NaN, np_mean(all_f1_scores)))
       ELSE UNCHANGED console
    /\ UNCHANGED <<model, cfg, shard, res_data, dataset, barrier, all_data,
                   gathered_data, files, all_f1_scores, num_processes,
                   distributed_type>>
    /\ UNCHANGED batchVars

Next ==
    \/ \E w \in Workers : ScoreShard(w)
    \/ \E w \in Workers : Fail(w)
    \/ \E w \in Workers : StartGather(w)
    \/ \E w \in Workers : FinishGather(w)
    \/ \E w \in Workers : Aggregate(w)
    \/ \E w \in Workers : FinalReport(w)

Spec == Init /\ [][Next]_vars

(***************************************************************************)
(* SpecMetrics: the metrics part of main on one process, on gathered       *)
(* results drawn from the lists of up to MaxGathered records.              *)
(* MetricsInput stands for lines 100-141 of a configuration.               *)
(***************************************************************************)
GatheredRecords ==
    { [id |-> 0, problem |-> <<>>, steps |-> << <<"a">> >>, label |-> l,
       prediction |-> p, match |-> (p = l)] : l \in {-1, 0}, p \in {-1, 0} }

GatheredLists == SeqsUpTo(GatheredRecords, MaxGathered)

InitMetrics ==
    /\ model = from_pretrained
    /\ num_processes = 1
    /\ distributed_type = "NO"
    /\ dataset = [c \in 1..NumConfigs |-> [loaded |-> FALSE, rows |-> <<>>]]
    /\ pc = [w \in {0} |-> "aggregate"]
    /\ cfg = [w \in {0} |-> 1]
    /\ shard = [w \in {0} |-> <<>>]
    /\ res_data = [w \in {0} |-> <<>>]
    /\ barrier = [c \in 1..NumConfigs |-> {}]
    /\ all_data = [c \in 1..NumConfigs |->
                      [w \in {0} |-> [present |-> FALSE, data |-> <<>>]]]
    /\ \E g \in GatheredLists : gathered_data = [w \in {0} |-> List(g)]
    /\ files = [c \in 1..NumConfigs |->
                   [written |-> FALSE, by |-> 0, error |-> <<>>, correct |-> <<>>]]
    /\ console = <<>>
    /\ all_f1_scores = <<>>
    /\ NoBatch

MetricsInput ==
    /\ pc[0] = "score"
    /\ \E g \in GatheredLists :
          gathered_data' = [gathered_data EXCEPT ![0] = List(g)]
    /\ pc' = [pc EXCEPT ![0] = "aggregate"]
    /\ UNCHANGED <<model, cfg, shard, res_data, dataset, barrier, all_data,
                   files, console, all_f1_scores, num_processes,
                   distributed_type>>
    /\ UNCHANGED batchVars

NextMetrics == Aggregate(0) \/ MetricsInput \/ FinalReport(0)

SpecMetrics == InitMetrics /\ [][NextMetrics]_vars


(***************************************************************************)
(* Properties of the batch pipeline (SpecBatch).                           *)
(***************************************************************************)
Collated(b) == stage[b] \in {"packed", "scored"}

\* number of tokens of the problem and of the first k steps of example e
TokensThrough(e, k) ==
    Len(tokenizer(Append(e.problem, NL)))
    + SeqSum([j \in 1..k |-> Len(tokenizer(Append(e.steps[j], NL)))])

\* C2: the step judge returns the smallest index whose class is 0, and -1
\* when no step has class 0; an example without steps gets -1 whatever its
\* label is.
C2_FirstMatchScan ==
    \A b \in 1..2 : stage[b] = "scored" =>
        \A i \in 1..Len(scored[b]) :
            LET pred  == scored[b][i].pred
                zeros == {k \in 1..Len(pred) : pred[k] = 0}
            IN  /\ Len(pred) = Len(batches[b][i].steps)
                /\ zeros = {} => scored[b][i].prediction = -1
                /\ zeros # {} =>
                      /\ scored[b][i].prediction + 1 \in zeros
                      /\ \A k \in zeros : scored[b][i].prediction + 1 <= k
                /\ batches[b][i].steps = <<>> => scored[b][i].prediction = -1

C2_Witness ==
    /\ stage[1] = "scored"
    /\ \E i \in 1..Len(scored[1]) :
          /\ scored[1][i].pred = <<1, 1, 0, 0>>
          /\ scored[1][i].prediction = 2
    /\ \E j \in 1..Len(scored[1]) :
          /\ batches[1][j].steps = <<>>
          /\ batches[1][j].label # -1
          /\ scored[1][j].prediction = -1

\* C3: in a packed batch every score position of example i is below max_len
\* and indexes a real token of row i: the real tokens come first, the pad
\* tokens after them.
C3_PositionsValid ==
    \A b \in 1..2 : Collated(b) =>
        \A i \in 1..Len(packed[b].input_ids) :
            LET row     == packed[b].input_ids[i]
                e       == batches[b][i]
                real    == TokensThrough(e, Len(e.steps))
                max_len == Len(packed[b].input_ids[1])
            IN  /\ Len(row) = max_len
                /\ real <= max_len
                /\ \A p \in 1..max_len : (row[p] = pad_token_id) <=> (p > real)
                /\ \A k \in 1..Len(packed[b].score_ids[i]) :
                      LET sp == packed[b].score_ids[i][k]
                      IN  /\ 0 <= sp
                          /\ sp < max_len
                          /\ sp < real
                          /\ row[sp + 1] # pad_token_id

C3_Witness ==
    /\ Collated(1)
    /\ \E i \in 1..Len(packed[1].input_ids) :
          /\ packed[1].score_ids[i] # <<>>
          /\ packed[1].input_ids[i][Len(packed[1].input_ids[i])] = pad_token_id
    /\ \E i \in 1..Len(packed[1].input_ids) :
          /\ packed[1].score_ids[i] # <<>>
          /\ packed[1].input_ids[i][Len(packed[1].input_ids[i])] # pad_token_id

\* C4: score_ids of an example has one entry per step, is strictly
\* increasing, and its k-th entry is the index of the last token of step k:
\* the length of the token sequence after step k was appended, minus one.
C4_ScorePositions ==
    \A b \in 1..2 : Collated(b) =>
        \A i \in 1..Len(packed[b].score_ids) :
            LET sc == packed[b].score_ids[i]
                e  == batches[b][i]
            IN  /\ Len(sc) = Len(e.steps)
                /\ \A k \in 1..Len(sc) : sc[k] = TokensThrough(e, k) - 1
                /\ \A k \in 1..(Len(sc) - 1) : sc[k] < sc[k + 1]

C4_Witness ==
    /\ Collated(1)
    /\ \E i \in 1..Len(packed[1].score_ids) :
          /\ Len(packed[1].score_ids[i]) = 4
          /\ packed[1].score_ids[i][1] + 1 < packed[1].score_ids[i][2]

Reached(v, c) ==
    \/ cfg[v] > c
    \/ cfg[v] = c /\ pc[v] \in {"barrier", "gathering", "aggregate"}

\* worker w has gone past the barrier of configuration c and called
\* gather_objects
StartedGather(w, c) ==
    \/ cfg[w] > c
    \/ cfg[w] = c /\ pc[w] \in {"gathering", "aggregate"}

\* worker v stopped in configuration c before it reached the barrier
FailedBefore(v, c) == pc[v] = "crashed" /\ cfg[v] = c

Count(id, data) == Cardinality({k \in 1..Len(data) : data[k].id = id})

\* the main process holds the merged result of configuration c
Merged(c) == cfg[0] = c /\ pc[0] = "aggregate"

\* C1: the merged result on the main process holds every example of the
\* dataset exactly once, for every dataset size and every number of workers.
C1_MergedExactlyOnce ==
    \A c \in 1..NumConfigs : Merged(c) =>
        LET merged == gathered_data[0].data
            n      == Len(dataset[c].rows)
        IN  /\ Len(merged) = n
            /\ \A id \in 0..(n - 1) : Count(id, merged) = 1

\* C6: with more than one worker, no worker calls gather_objects for a
\* configuration before every worker has scored its shard of it and called
\* wait_for_everyone; once a worker has stopped before the barrier of a
\* configuration, no worker is past that barrier.
C6_BarrierBeforeGather ==
    num_processes > 1 =>
        \A c \in 1..NumConfigs :
            /\ \A w \in Workers : StartedGather(w, c) =>
                  \A v \in Workers : Reached(v, c) /\ v \in barrier[c]
            /\ \A v \in Workers : FailedBefore(v, c) =>
                  \A w \in Workers : ~StartedGather(w, c)

C6_Witness ==
    /\ num_processes > 1
    /\ \E v, w \in Workers :
          /\ FailedBefore(v, 2)
          /\ pc[w] = "barrier" /\ cfg[w] = 2
          /\ all_data[1][w].present

FilesAfterGather ==
    \A c \in 1..NumConfigs : files[c].written =>
        /\ files[c].by = 0
        /\ cfg[0] > c
        /\ \A v \in Workers : Reached(v, c)
        /\ num_processes > 1 => AllGathered(c)

NothingPersistedAfterFailure ==
    \A c \in 1..NumConfigs : \A v \in Workers : FailedBefore(v, c) =>
        \A d \in c..NumConfigs : ~files[d].written

FilesStay ==
    /\ \A c \in 1..NumConfigs : files[c].written => files'[c] = files[c]
    /\ files' # files => pc[0] = "aggregate" /\ pc'[0] # "aggregate"

\* C7: the two files of a configuration are written by the main process
\* only, after the gather of that configuration; once a worker has stopped
\* before the barrier of a configuration nothing is written for it, and the
\* files already written stay as they are.
C7_FilesByMainAfterGather ==
    /\ [](FilesAfterGather /\ NothingPersistedAfterFailure)
    /\ [][FilesStay]_vars

C7_Witness ==
    /\ num_processes > 1
    /\ files[1].written
    /\ files[1].error # <<>>
    /\ ~files[2].written
    /\ \E v \in Workers : FailedBefore(v, 2)
    /\ pc[0] = "barrier" /\ cfg[0] = 2

\* C10: with the striped sampler and N >= W >= 2, every worker scores
\* ceil(N/W) examples (the indices w, w+W, ... of 0..N-1 extended by
\* wrap-around), the merged list on the main process has W*ceil(N/W)
\* entries, the first W*ceil(N/W) - N indices are in it twice and the others
\* once, and the other workers get None from gather_objects.
C10_StripedShards ==
    (distributed_type = "MULTI_GPU" /\ num_processes >= 2) =>
        /\ \A c \in 1..NumConfigs :
              LET n == Len(dataset[c].rows)
                  W == num_processes
                  m == CeilDiv(n, W)
              IN  (dataset[c].loaded /\ n >= W) =>
                    /\ \A w \in Workers :
                          (cfg[w] = c /\ pc[w] \in {"barrier", "gathering", "aggregate"}) =>
                              /\ Len(res_data[w]) = m
                              /\ \A j \in 1..m :
                                    res_data[w][j].id = (w + (j - 1) * W) % n
                    /\ Merged(c) =>
                          /\ gathered_data[0].kind = "list"
                          /\ Len(gathered_data[0].data) = W * m
                          /\ \A id \in 0..(n - 1) :
                                Count(id, gathered_data[0].data)
                                    = IF id < W * m - n THEN 2 ELSE 1
        /\ \A w \in Workers \ {0} :
              /\ gathered_data[w].kind \in {"unset", "none"}
              /\ cfg[w] > 1 => gathered_data[w] = None

C10_Witness ==
    /\ distributed_type = "MULTI_GPU"
    /\ num_processes = 2
    /\ Merged(2)
    /\ Len(dataset[2].rows) = 3
    /\ Len(gathered_data[0].data) = 4
    /\ Count(0, gathered_data[0].data) = 2
    /\ gathered_data[1] = None

(***************************************************************************)
(* Properties of the metrics (SpecMetrics).                                *)
(***************************************************************************)
Printed(m) == \E k \in 1..Len(console) : console[k] = m

Reports == {console[k] : k \in {j \in 1..Len(console) : console[j].kind = "report"}}

Averages == {console[k] : k \in {j \in 1..Len(console) : console[j].kind = "average"}}

IsPositive(x) == x.kind = "num" /\ x.n > 0

\* C5 as stated: if either accuracy is 0, the f1 of the configuration is
\* not-a-number.
C5_EitherZeroGivesNaN ==
    \A m \in Reports : (IsZero(m.acc1) \/ IsZero(m.acc2)) => IsNaN(m.f1)

\* C5 amended: the f1 of a configuration is not-a-number exactly when both
\* accuracies are 0 or an accuracy is itself not-a-number (an empty subset);
\* with one accuracy 0 and the other positive it is 0; the final mean is
\* not-a-number exactly when an f1 of all_f1_scores is.
C5_NaNOnlyWhenBothZero ==
    /\ \A m \in Reports :
          /\ IsNaN(m.f1) <=> \/ IsNaN(m.acc1)
                             \/ IsNaN(m.acc2)
                             \/ IsZero(m.acc1) /\ IsZero(m.acc2)
          /\ (IsZero(m.acc1) /\ IsPositive(m.acc2)) => IsZero(m.f1)
          /\ (IsPositive(m.acc1) /\ IsZero(m.acc2)) => IsZero(m.f1)
    /\ \A a \in Averages :
          IsNaN(a.f1) <=> \E k \in 1..Len(all_f1_scores) : IsNaN(all_f1_scores[k])

C5_Witness ==
    /\ \E m \in Reports :
          IsZero(m.acc1) /\ m.acc2 = Num(50, 1) /\ IsZero(m.f1)
    /\ \E m \in Reports :
          IsZero(m.acc1) /\ IsZero(m.acc2) /\ IsNaN(m.f1)
    /\ \E a \in Averages : IsNaN(a.f1)

\* C8: whether or not the subset sizes of a configuration differ from the
\* expected counts, the main process writes both files, computes the
\* accuracies and f1 from the subsets themselves, appends f1 to
\* all_f1_scores and goes on; a mismatch is printed, and only printed.
C8_MismatchNonFatal ==
    /\ pc[0] # "crashed"
    /\ Len(all_f1_scores) = cfg[0] - 1
    /\ \A c \in 1..NumConfigs : cfg[0] > c =>
          LET data1 == files[c].error
              data2 == files[c].correct
              acc1  == Accuracy(data1)
              acc2  == Accuracy(data2)
              f1    == FDiv(FMul(FMul(Num(2, 1), acc1), acc2), FAdd(acc1, acc2))
          IN  /\ files[c].written
              /\ \A k \in 1..Len(data1) : data1[k].label # -1
              /\ \A k \in 1..Len(data2) : data2[k].label = -1
              /\ acc1 = IF data1 = <<>> THEN NaN
                        ELSE Num(100 * MatchCount(data1), Len(data1))
              /\ acc2 = IF data2 = <<>> THEN NaN
                        ELSE Num(100 * MatchCount(data2), Len(data2))
              /\ all_f1_scores[c] = f1
              /\ Printed(Message("report", c, 0, 0, acc1, acc2, f1))
              /\ (Len(data1) # num(c)[1]) <=>
                    Printed(Message("error num mismatch", c, Len(data1),
                                    num(c)[1], NaN, NaN, NaN))
              /\ (Len(data2) # num(c)[2]) <=>
                    Printed(Message("correct num mismatch", c, Len(data2),
                                    num(c)[2], NaN, NaN, NaN))
              /\ (cfg[0] = c + 1 /\ pc[0] \in {"score", "final", "done"}) =>
                    /\ data1 = SelectSeq(gathered_data[0].data, IsError)
                    /\ data2 = SelectSeq(gathered_data[0].data, IsCorrect)

C8_Witness ==
    /\ cfg[0] = 2
    /\ pc[0] = "aggregate"
    /\ \E k \in 1..Len(console) : console[k].kind = "error num mismatch"
    /\ \E k \in 1..Len(console) : console[k].kind = "correct num mismatch"
    /\ files[1].written
    /\ Len(files[1].error) = 2
    /\ Len(files[1].correct) = 0
    /\ Len(all_f1_scores) = 1

=============================================================================
